---- MODULE Spec2Model ----
(***************************************************************************)
(* Simulation/execution core of the AI DeepSeek trader: RiskManager,       *)
(* PerformanceTracker, DeepSeekClient, BacktestEngine, PaperTradingEngine  *)
(* and the volume profile of the indicator calculator.                     *)
(*                                                                         *)
(* Numbers.  The program computes in floating point.  Here money and       *)
(* prices are whole currency units, quantities are whole units of the base *)
(* asset, fractions (fees, risk limits, the decision's quantity) are basis *)
(* points (1/10000) and every product with a fraction is rounded down.     *)
(* Percentages that the program stores (currentDrawdown,                   *)
(* maxDrawdownPercentage) are kept exactly, as a numerator over a          *)
(* denominator.  Timestamps are milliseconds from an arbitrary origin.     *)
(* A missing optional number (decision.quantity, decision.stopLoss,        *)
(* decision.takeProfit, adjustedQuantity) is 0: the program itself tests   *)
(* these with JavaScript truthiness, so 0 and undefined are the same case. *)
(***************************************************************************)
EXTENDS Integers, Sequences, FiniteSets, TLC

VARIABLES
  engine,            \* which driver runs: "backtest", "paper", or a component driven directly ("risk", "tracker", "size")
  now,               \* Date.now() as read by the constructors
  recoveryMinutes,   \* riskParams.circuitBreakerRecoveryMinutes
  slippage,          \* config.slippage, basis points
  dashboardThrows,   \* a dashboard is connected and its broadcastUpdate throws
  tradingHalted,     \* RiskManager.tradingHalted
  haltReason,        \* RiskManager.haltReason
  haltTimestamp,     \* RiskManager.haltTimestamp
  stats,             \* PerformanceTracker.stats
  closedTrades,      \* PerformanceTracker.closedTrades
  peakEquity,        \* PerformanceTracker.peakEquity
  portfolio,         \* engine.portfolio
  currentPosition,   \* engine.currentPosition
  trades,            \* engine.trades (the BUY records)
  decisions,         \* engine.decisions
  candles,           \* backtest: the loaded candle sequence after the 50-candle warm-up
  idx,               \* backtest: loop index into candles
  pc,                \* backtest: "loop", "done"
  candleHistory,     \* paper: engine.candleHistory
  isRunning,         \* paper: engine.isRunning
  pollingInterval,   \* paper: TRUE while the setInterval timer is armed
  inv,               \* paper: the invocations of fetchAndProcessLatestCandle in flight
  newCandleLog,      \* paper: timestamps logged as "New candle" (one per pipeline run)
  skipLog,           \* paper: number of polls answered with "No new candle yet"
  ticks,             \* paper: timer ticks so far
  lastCall           \* the last RiskManager call made and what it returned

vars == <<engine, now, recoveryMinutes, slippage, dashboardThrows, tradingHalted, haltReason,
          haltTimestamp, stats, closedTrades, peakEquity, portfolio,
          currentPosition, trades, decisions, candles, idx, pc, candleHistory,
          isRunning, pollingInterval, inv, newCandleLog, skipLog, ticks, lastCall>>

riskVars == <<tradingHalted, haltReason, haltTimestamp>>
trackerVars == <<stats, closedTrades, peakEquity>>
configVars == <<engine, now, recoveryMinutes, slippage, dashboardThrows>>
engineVars == <<portfolio, currentPosition, trades, decisions>>
backtestVars == <<candles, idx, pc>>
paperVars == <<candleHistory, isRunning, pollingInterval, inv, newCandleLog, skipLog, ticks>>

(***************************************************************************)
(* Configuration (ConfigLoader.loadConfig defaults).                       *)
(***************************************************************************)
initialCapital == 10000
takerFee == 26
maxRiskPerTrade == 200
maxDrawdown == 1500
dailyLossLimit == 500
maxConsecutiveLosses == 3
stopLossPercentage == 200
takeProfitPercentage == 300
maxPositionSize == 2500

(***************************************************************************)
(* Bounds of the model.                                                    *)
(***************************************************************************)
MaxCalls == 3        \* risk driver: number of tracker updates per run
MaxCandles == 3      \* backtest: candles after the warm-up window
MaxPolls == 2        \* paper: timer ticks per session
MaxInFlight == 2     \* paper: invocations that can be in flight together

TimeframeMs == 1800000    \* a "30m" timeframe in milliseconds

\* x * bps / 10000, rounded down
Frac(x, bps) == (x * bps) \div 10000

Abs(x) == IF x < 0 THEN 0 - x ELSE x
Max(a, b) == IF a > b THEN a ELSE b
Min(a, b) == IF a < b THEN a ELSE b


(***************************************************************************)
(* RiskManager (risk-manager.ts).  A RiskCheck is                          *)
(* {allowed, reason, adjustedQuantity}; the reason string is kept as its   *)
(* two parts, a prefix ("Trading halted" when the call was refused because *)
(* the manager was already halted) and the cause.  The manager's three     *)
(* fields travel as one record rs = [halted, reason, ts].                  *)
(***************************************************************************)
Allowed == [allowed |-> TRUE, prefix |-> "", cause |-> "", adjustedQuantity |-> 0]
Rejected(cause) == [allowed |-> FALSE, prefix |-> "", cause |-> cause, adjustedQuantity |-> 0]

checkConsecutiveLosses(st) ==
  IF st.consecutiveLosses >= maxConsecutiveLosses
    THEN Rejected("consecutive losses")
    ELSE Allowed

\* lossPercentage = |currentDrawdown| / 100 >= dailyLossLimit
checkDailyLossLimit(st) ==
  IF Abs(st.currentDrawdown.num) * 100 >= dailyLossLimit * st.currentDrawdown.den
    THEN Rejected("daily loss limit")
    ELSE Allowed

\* maxDrawdownPercentage / 100 >= maxDrawdown
checkMaxDrawdown(st) ==
  IF st.maxDrawdownPercentage.num * 100 >= maxDrawdown * st.maxDrawdownPercentage.den
    THEN Rejected("max drawdown")
    ELSE Allowed

checkPositionSize(decision, pf) ==
  IF decision.quantity # 0 /\ decision.quantity > maxPositionSize
    THEN [allowed |-> TRUE, prefix |-> "", cause |-> "", adjustedQuantity |-> maxPositionSize]
    ELSE Allowed


\* checkSufficientCash comparing the wrong portfolio field
checkSufficientCash_wrongField(decision, pf) ==
  LET fraction == IF decision.quantity # 0 THEN decision.quantity ELSE 1000
  IN IF pf.totalEquity * 10000 < pf.totalEquity * fraction
       THEN Rejected("insufficient cash")
       ELSE Allowed

\* requiredCash = totalEquity * quantity, or totalEquity * 0.1 without a quantity;
\* the comparison cash < requiredCash is made exactly, in 1/10000 units.
checkSufficientCash(decision, pf) ==
  LET fraction == IF decision.quantity # 0 THEN decision.quantity ELSE 1000
  IN IF pf.cash * 10000 < pf.totalEquity * fraction
       THEN Rejected("insufficient cash")
       ELSE Allowed


\* haltTrading stamping the halt with the wall clock whatever timestamp it is given
haltTrading_wallClock(reason, timestamp, wallClock) ==
  [halted |-> TRUE, reason |-> reason, ts |-> wallClock]

haltTrading(reason, timestamp, wallClock) ==
  [halted |-> TRUE, reason |-> reason,
   ts |-> IF timestamp # 0 THEN timestamp ELSE wallClock]

resumeTrading(rs) ==
  IF rs.halted THEN [halted |-> FALSE, reason |-> "", ts |-> 0] ELSE rs


\* checkAutoRecovery without the test for a disabled (zero) recovery window
checkAutoRecovery_noZeroTest(rs, currentTimestamp, recMinutes) ==
  IF ~rs.halted
    THEN rs
    ELSE IF currentTimestamp - rs.ts >= recMinutes * 60 * 1000
           THEN resumeTrading(rs)
           ELSE rs

checkAutoRecovery(rs, currentTimestamp, recMinutes) ==
  IF ~rs.halted \/ recMinutes = 0
    THEN rs
    ELSE IF currentTimestamp - rs.ts >= recMinutes * 60 * 1000
           THEN resumeTrading(rs)
           ELSE rs

\* checkTradeAllowed letting the call that recovers from a halt pass unchecked
checkTradeAllowed_recoveredPasses(rs, decision, pf, st, hasPosition, currentTimestamp, recMinutes, wallClock) ==
  LET r1 == IF rs.halted /\ currentTimestamp # 0
              THEN checkAutoRecovery(rs, currentTimestamp, recMinutes)
              ELSE rs
      consecutiveLossCheck == checkConsecutiveLosses(st)
      dailyLossCheck == checkDailyLossLimit(st)
      drawdownCheck == checkMaxDrawdown(st)
      positionSizeCheck == checkPositionSize(decision, pf)
      cashCheck == checkSufficientCash(decision, pf)
  IN IF r1.halted
       THEN [check |-> [allowed |-> FALSE, prefix |-> "Trading halted",
                        cause |-> r1.reason, adjustedQuantity |-> 0],
             rs |-> r1]
     ELSE IF r1 # rs
       THEN [check |-> Allowed, rs |-> r1]
     ELSE IF ~consecutiveLossCheck.allowed
       THEN [check |-> consecutiveLossCheck,
             rs |-> haltTrading(consecutiveLossCheck.cause, currentTimestamp, wallClock)]
     ELSE IF ~dailyLossCheck.allowed
       THEN [check |-> dailyLossCheck,
             rs |-> haltTrading(dailyLossCheck.cause, currentTimestamp, wallClock)]
     ELSE IF ~drawdownCheck.allowed
       THEN [check |-> drawdownCheck,
             rs |-> haltTrading(drawdownCheck.cause, currentTimestamp, wallClock)]
     ELSE IF decision.action = "BUY" /\ ~positionSizeCheck.allowed
       THEN [check |-> positionSizeCheck, rs |-> r1]
     ELSE IF decision.action = "BUY" /\ ~cashCheck.allowed
       THEN [check |-> cashCheck, rs |-> r1]
     ELSE IF decision.action = "BUY" /\ hasPosition
       THEN [check |-> Rejected("position already open"), rs |-> r1]
     ELSE IF decision.action = "SELL" /\ ~hasPosition
       THEN [check |-> Rejected("no open position"), rs |-> r1]
     ELSE [check |-> Allowed, rs |-> r1]

\* The result is the returned RiskCheck together with the manager's state
\* after the call.  hasPosition is "currentPosition is not null".
checkTradeAllowed(rs, decision, pf, st, hasPosition, currentTimestamp, recMinutes, wallClock) ==
  LET r1 == IF rs.halted /\ currentTimestamp # 0
              THEN checkAutoRecovery(rs, currentTimestamp, recMinutes)
              ELSE rs
      consecutiveLossCheck == checkConsecutiveLosses(st)
      dailyLossCheck == checkDailyLossLimit(st)
      drawdownCheck == checkMaxDrawdown(st)
      positionSizeCheck == checkPositionSize(decision, pf)
      cashCheck == checkSufficientCash(decision, pf)
  IN IF r1.halted
       THEN [check |-> [allowed |-> FALSE, prefix |-> "Trading halted",
                        cause |-> r1.reason, adjustedQuantity |-> 0],
             rs |-> r1]
     ELSE IF ~consecutiveLossCheck.allowed
       THEN [check |-> consecutiveLossCheck,
             rs |-> haltTrading(consecutiveLossCheck.cause, currentTimestamp, wallClock)]
     ELSE IF ~dailyLossCheck.allowed
       THEN [check |-> dailyLossCheck,
             rs |-> haltTrading(dailyLossCheck.cause, currentTimestamp, wallClock)]
     ELSE IF ~drawdownCheck.allowed
       THEN [check |-> drawdownCheck,
             rs |-> haltTrading(drawdownCheck.cause, currentTimestamp, wallClock)]
     ELSE IF decision.action = "BUY" /\ ~positionSizeCheck.allowed
       THEN [check |-> positionSizeCheck, rs |-> r1]
     ELSE IF decision.action = "BUY" /\ ~cashCheck.allowed
       THEN [check |-> cashCheck, rs |-> r1]
     ELSE IF decision.action = "BUY" /\ hasPosition
       THEN [check |-> Rejected("position already open"), rs |-> r1]
     ELSE IF decision.action = "SELL" /\ ~hasPosition
       THEN [check |-> Rejected("no open position"), rs |-> r1]
     ELSE [check |-> Allowed, rs |-> r1]

\* calculatePositionSize without the cap at maxQuantity
calculatePositionSize_noCap(decision, pf, currentPrice) ==
  LET riskNum == pf.totalEquity * maxRiskPerTrade
      riskDen == IF decision.stopLoss # 0
                   THEN Abs(currentPrice - decision.stopLoss) * 10000
                   ELSE currentPrice * stopLossPercentage
      special == IF riskDen # 0 THEN ""
                 ELSE IF riskNum > 0 THEN "Infinity"
                 ELSE IF riskNum = 0 THEN "NaN" ELSE "-Infinity"
      sized == IF riskDen = 0 THEN 0 ELSE riskNum \div riskDen
      aiSuggestedQuantity == (pf.cash * decision.quantity) \div (10000 * currentPrice)
  IN IF decision.quantity # 0 /\ special \in {"", "Infinity"}
       THEN [special |-> "",
             v |-> IF special = "" THEN Min(sized, aiSuggestedQuantity)
                   ELSE aiSuggestedQuantity]
       ELSE [special |-> special, v |-> sized]

(***************************************************************************)
(* calculatePositionSize.  maxRiskAmount / stopLossDistance is a floating  *)
(* point division: by zero it gives Infinity (which Math.min then drops in *)
(* favour of maxQuantity), -Infinity, or NaN for 0/0 (which Math.min       *)
(* returns).  The result is [special, v]: special is "" for an ordinary    *)
(* number v (whole units), else "NaN" or "-Infinity".                      *)
(***************************************************************************)
calculatePositionSize(decision, pf, currentPrice) ==
  LET maxQuantity == (pf.totalEquity * maxPositionSize) \div (10000 * currentPrice)
      \* maxRiskAmount / stopLossDistance, numerator and denominator in 1/10000 units
      riskNum == pf.totalEquity * maxRiskPerTrade
      riskDen == IF decision.stopLoss # 0
                   THEN Abs(currentPrice - decision.stopLoss) * 10000
                   ELSE currentPrice * stopLossPercentage
      special == IF riskDen # 0 \/ riskNum > 0 THEN ""
                 ELSE IF riskNum = 0 THEN "NaN" ELSE "-Infinity"
      sized == IF riskDen = 0 THEN maxQuantity ELSE Min(riskNum \div riskDen, maxQuantity)
      aiSuggestedQuantity == (pf.cash * decision.quantity) \div (10000 * currentPrice)
  IN [special |-> special,
      v |-> IF decision.quantity # 0 THEN Min(sized, aiSuggestedQuantity) ELSE sized]

calculateStopLoss(entryPrice, aiStopLoss) ==
  LET distance == Abs(entryPrice - aiStopLoss) * 10000   \* times entryPrice, in 1/10000
  IN IF aiStopLoss # 0
        /\ distance * 2 >= stopLossPercentage * entryPrice
        /\ distance <= stopLossPercentage * 2 * entryPrice
       THEN aiStopLoss
       ELSE Frac(entryPrice, 10000 - stopLossPercentage)

calculateTakeProfit(entryPrice, aiTakeProfit) ==
  LET distance == Abs(aiTakeProfit - entryPrice) * 10000
  IN IF aiTakeProfit # 0
        /\ distance * 2 >= takeProfitPercentage * entryPrice
        /\ distance <= takeProfitPercentage * 3 * entryPrice
       THEN aiTakeProfit
       ELSE Frac(entryPrice, 10000 + takeProfitPercentage)

(***************************************************************************)
(* PerformanceTracker (performance-stats.ts).  A tracker value is          *)
(* [stats, closedTrades, peakEquity].  The aggregates recalculateStats     *)
(* derives from closedTrades alone (winRate, averages, profit factor,      *)
(* Sharpe ratio, expectancy) are read only by the reports and are not      *)
(* carried in the model's stats record.                                    *)
(***************************************************************************)
initialStats(capital, wallClock) ==
  [totalTrades |-> 0, winningTrades |-> 0, losingTrades |-> 0,
   totalPnL |-> 0,
   maxDrawdown |-> 0,
   maxDrawdownPercentage |-> [num |-> 0, den |-> 1],
   currentDrawdown |-> [num |-> 0, den |-> 1],
   consecutiveWins |-> 0, consecutiveLosses |-> 0,
   maxConsecutiveWins |-> 0, maxConsecutiveLosses |-> 0,
   equityCurve |-> <<[timestamp |-> wallClock, equity |-> capital]>>,
   startTime |-> wallClock, lastUpdateTime |-> wallClock]

\* the drawdown block shared by addTrade and updateEquityCurve
withDrawdown(st, peak, equity) ==
  LET newPeak == IF equity > peak THEN equity ELSE peak
      drawdown == newPeak - equity
      grows == drawdown > st.maxDrawdown
  IN [stats |-> [st EXCEPT
                   !.currentDrawdown = [num |-> drawdown * 100, den |-> newPeak],
                   !.maxDrawdown = IF grows THEN drawdown ELSE @,
                   !.maxDrawdownPercentage =
                       IF grows THEN [num |-> drawdown * 100, den |-> newPeak] ELSE @],
      peakEquity |-> newPeak]

\* addTrade that does not reset the opposite streak
addTrade_noReset(tr, trade, currentEquity) ==
  LET s1 == [tr.stats EXCEPT
               !.totalTrades = @ + 1,
               !.winningTrades = IF trade.isWin THEN @ + 1 ELSE @,
               !.losingTrades = IF trade.isWin THEN @ ELSE @ + 1,
               !.consecutiveWins = IF trade.isWin THEN @ + 1 ELSE @,
               !.consecutiveLosses = IF trade.isWin THEN @ ELSE @ + 1,
               !.maxConsecutiveWins =
                   IF trade.isWin /\ tr.stats.consecutiveWins + 1 > @
                     THEN tr.stats.consecutiveWins + 1 ELSE @,
               !.maxConsecutiveLosses =
                   IF ~trade.isWin /\ tr.stats.consecutiveLosses + 1 > @
                     THEN tr.stats.consecutiveLosses + 1 ELSE @,
               !.totalPnL = @ + trade.pnl,
               !.equityCurve = Append(@, [timestamp |-> trade.exitTime,
                                          equity |-> currentEquity]),
               !.lastUpdateTime = trade.exitTime]
      d == withDrawdown(s1, tr.peakEquity, currentEquity)
  IN [stats |-> d.stats,
      closedTrades |-> Append(tr.closedTrades, trade),
      peakEquity |-> d.peakEquity]

addTrade(tr, trade, currentEquity) ==
  LET s1 == [tr.stats EXCEPT
               !.totalTrades = @ + 1,
               !.winningTrades = IF trade.isWin THEN @ + 1 ELSE @,
               !.losingTrades = IF trade.isWin THEN @ ELSE @ + 1,
               !.consecutiveWins = IF trade.isWin THEN @ + 1 ELSE 0,
               !.consecutiveLosses = IF trade.isWin THEN 0 ELSE @ + 1,
               !.maxConsecutiveWins =
                   IF trade.isWin /\ tr.stats.consecutiveWins + 1 > @
                     THEN tr.stats.consecutiveWins + 1 ELSE @,
               !.maxConsecutiveLosses =
                   IF ~trade.isWin /\ tr.stats.consecutiveLosses + 1 > @
                     THEN tr.stats.consecutiveLosses + 1 ELSE @,
               !.totalPnL = @ + trade.pnl,
               !.equityCurve = Append(@, [timestamp |-> trade.exitTime,
                                          equity |-> currentEquity]),
               !.lastUpdateTime = trade.exitTime]
      d == withDrawdown(s1, tr.peakEquity, currentEquity)
  IN [stats |-> d.stats,
      closedTrades |-> Append(tr.closedTrades, trade),
      peakEquity |-> d.peakEquity]

updateEquityCurve(tr, timestamp, equity) ==
  LET s1 == [tr.stats EXCEPT
               !.equityCurve = Append(@, [timestamp |-> timestamp, equity |-> equity])]
      d == withDrawdown(s1, tr.peakEquity, equity)
  IN [stats |-> [d.stats EXCEPT !.lastUpdateTime = timestamp],
      closedTrades |-> tr.closedTrades,
      peakEquity |-> d.peakEquity]

tracker == [stats |-> stats, closedTrades |-> closedTrades, peakEquity |-> peakEquity]
riskState == [halted |-> tradingHalted, reason |-> haltReason, ts |-> haltTimestamp]


(***************************************************************************)
(* The execution simulator, the same code in BacktestEngine and            *)
(* PaperTradingEngine.  The operators take and return the engine's mutable *)
(* state as one record e = [portfolio, currentPosition, trades, tr], tr    *)
(* being the engine's PerformanceTracker.  A candle is [timestamp, close]. *)
(* portfolio.holdings is the Map's entries: <<>> or <<quantity>>.          *)
(***************************************************************************)
\* PerformanceTracker.broadcastUpdate, the last statement of addTrade and of
\* updateEquityCurve: TRUE when it throws.  Nothing catches it before the
\* catch of processCandle, so what follows the call in the callers is skipped
\* (e.fault) with the tracker already updated.
broadcastUpdate(e) == e.throws

updatePortfolio(e, currentPrice, timestamp) ==
  LET totalEquity == IF e.currentPosition.open
                       THEN e.portfolio.cash + e.currentPosition.quantity * currentPrice
                       ELSE e.portfolio.cash
  IN [e EXCEPT !.portfolio.totalEquity = totalEquity,
               !.portfolio.timestamp = timestamp]

\* openPosition debiting the value without the entry fee
openPosition_feeNotDebited(e, decision, candle, slip, wallClock) ==
  LET entryPrice == Frac(candle.close, 10000 + slip)
      quantity == calculatePositionSize(decision, e.portfolio, entryPrice).v
      value == quantity * entryPrice
      fee == Frac(value, takerFee)
      stopLoss == calculateStopLoss(entryPrice, decision.stopLoss)
      takeProfit == calculateTakeProfit(entryPrice, decision.takeProfit)
      trade == [id |-> wallClock, timestamp |-> candle.timestamp, action |-> "BUY",
                quantity |-> quantity, price |-> entryPrice, value |-> value,
                fee |-> fee, stopLoss |-> stopLoss, takeProfit |-> takeProfit]
  IN [e EXCEPT
        !.currentPosition = [open |-> TRUE, entryPrice |-> entryPrice,
                             quantity |-> quantity, entryTime |-> candle.timestamp,
                             stopLoss |-> stopLoss, takeProfit |-> takeProfit,
                             currentPrice |-> entryPrice, unrealizedPnL |-> 0],
        !.portfolio.cash = @ - value,
        !.portfolio.holdings = <<quantity>>,
        !.trades = Append(@, trade)]

openPosition(e, decision, candle, slip, wallClock) ==
  LET entryPrice == Frac(candle.close, 10000 + slip)
      quantity == calculatePositionSize(decision, e.portfolio, entryPrice).v
      value == quantity * entryPrice
      fee == Frac(value, takerFee)
      stopLoss == calculateStopLoss(entryPrice, decision.stopLoss)
      takeProfit == calculateTakeProfit(entryPrice, decision.takeProfit)
      trade == [id |-> wallClock, timestamp |-> candle.timestamp, action |-> "BUY",
                quantity |-> quantity, price |-> entryPrice, value |-> value,
                fee |-> fee, stopLoss |-> stopLoss, takeProfit |-> takeProfit]
  IN [e EXCEPT
        !.currentPosition = [open |-> TRUE, entryPrice |-> entryPrice,
                             quantity |-> quantity, entryTime |-> candle.timestamp,
                             stopLoss |-> stopLoss, takeProfit |-> takeProfit,
                             currentPrice |-> entryPrice, unrealizedPnL |-> 0],
        !.portfolio.cash = @ - (value + fee),
        !.portfolio.holdings = <<quantity>>,
        !.trades = Append(@, trade)]


\* closePosition that does not clear currentPosition
closePosition_keepsPosition(e, candle, reason, slip, wallClock) ==
  IF ~e.currentPosition.open THEN e
  ELSE
    LET pos == e.currentPosition
        exitPrice == Frac(candle.close, 10000 - slip)
        value == pos.quantity * exitPrice
        fee == Frac(value, takerFee)
        entryValue == pos.quantity * pos.entryPrice
        pnl == value - entryValue - fee
        closedTrade == [id |-> wallClock, timestamp |-> pos.entryTime, action |-> "SELL",
                        quantity |-> pos.quantity, price |-> pos.entryPrice,
                        value |-> entryValue, fee |-> fee,
                        stopLoss |-> pos.stopLoss, takeProfit |-> pos.takeProfit,
                        reasoning |-> reason,
                        exitTime |-> candle.timestamp, exitPrice |-> exitPrice,
                        pnl |-> pnl,
                        pnlPercentage |-> [num |-> pnl * 100, den |-> entryValue],
                        holdingPeriod |-> candle.timestamp - pos.entryTime,
                        isWin |-> pnl > 0]
    IN [e EXCEPT
          !.portfolio.cash = @ + (value - fee),
          !.portfolio.holdings = <<>>,
          !.tr = addTrade(e.tr, closedTrade, e.portfolio.totalEquity)]

closePosition(e, candle, reason, slip, wallClock) ==
  IF ~e.currentPosition.open THEN e
  ELSE
    LET pos == e.currentPosition
        exitPrice == Frac(candle.close, 10000 - slip)
        value == pos.quantity * exitPrice
        fee == Frac(value, takerFee)
        entryValue == pos.quantity * pos.entryPrice
        pnl == value - entryValue - fee
        closedTrade == [id |-> wallClock, timestamp |-> pos.entryTime, action |-> "SELL",
                        quantity |-> pos.quantity, price |-> pos.entryPrice,
                        value |-> entryValue, fee |-> fee,
                        stopLoss |-> pos.stopLoss, takeProfit |-> pos.takeProfit,
                        reasoning |-> reason,
                        exitTime |-> candle.timestamp, exitPrice |-> exitPrice,
                        pnl |-> pnl,
                        pnlPercentage |-> [num |-> pnl * 100, den |-> entryValue],
                        holdingPeriod |-> candle.timestamp - pos.entryTime,
                        isWin |-> pnl > 0]
    IN [e EXCEPT
          !.portfolio.cash = @ + (value - fee),
          !.portfolio.holdings = <<>>,
          !.tr = addTrade(e.tr, closedTrade, e.portfolio.totalEquity),
          !.currentPosition = IF broadcastUpdate(e) THEN @ ELSE [open |-> FALSE],
          !.fault = broadcastUpdate(e)]

\* checkExitConditions without the take-profit test
checkExitConditions_noTakeProfit(e, candle, slip, wallClock) ==
  IF ~e.currentPosition.open THEN e
  ELSE IF candle.close <= e.currentPosition.stopLoss
    THEN closePosition(e, candle, "Stop Loss triggered", slip, wallClock)
  ELSE [e EXCEPT
          !.currentPosition.currentPrice = candle.close,
          !.currentPosition.unrealizedPnL =
              e.currentPosition.quantity * candle.close
                - e.currentPosition.quantity * e.currentPosition.entryPrice]

checkExitConditions(e, candle, slip, wallClock) ==
  IF ~e.currentPosition.open THEN e
  ELSE IF candle.close <= e.currentPosition.stopLoss
    THEN closePosition(e, candle, "Stop Loss triggered", slip, wallClock)
  ELSE IF candle.close >= e.currentPosition.takeProfit
    THEN closePosition(e, candle, "Take Profit triggered", slip, wallClock)
  ELSE [e EXCEPT
          !.currentPosition.currentPrice = candle.close,
          !.currentPosition.unrealizedPnL =
              e.currentPosition.quantity * candle.close
                - e.currentPosition.quantity * e.currentPosition.entryPrice]

executeTrade(e, decision, candle, slip, wallClock) ==
  IF decision.action = "BUY" /\ ~e.currentPosition.open
    THEN openPosition(e, decision, candle, slip, wallClock)
  ELSE IF decision.action = "SELL" /\ e.currentPosition.open
    THEN closePosition(e, candle, "decision", slip, wallClock)
  ELSE e

\* processCandle, steps 1 and 2: everything before the indicators are computed
beforeDecision(e, candle, slip, wallClock) ==
  LET e1 == updatePortfolio(e, candle.close, candle.timestamp)
  IN IF e1.currentPosition.open
       THEN checkExitConditions(e1, candle, slip, wallClock)
       ELSE e1

\* processCandle, steps 7 to 9: everything after getDecision has returned.
\* The result is the engine, the risk manager and the RiskCheck obtained.
afterDecision(e, rs, decision, candle, slip, recMinutes, wallClock) ==
  LET r == checkTradeAllowed(rs, decision, e.portfolio, e.tr.stats,
                             e.currentPosition.open, candle.timestamp,
                             recMinutes, wallClock)
      e1 == executeTrade(e, decision, candle, slip, wallClock)
  IN IF ~r.check.allowed
       THEN [e |-> e, rs |-> r.rs, check |-> r.check]
     ELSE IF e1.fault
       THEN [e |-> e1, rs |-> r.rs, check |-> r.check]
       ELSE [e |-> [e1 EXCEPT !.tr = updateEquityCurve(e1.tr, candle.timestamp,
                                                       e1.portfolio.totalEquity),
                              !.fault = broadcastUpdate(e1)],
             rs |-> r.rs, check |-> r.check]

engineState == [portfolio |-> portfolio, currentPosition |-> currentPosition,
                trades |-> trades, tr |-> tracker,
                throws |-> dashboardThrows, fault |-> FALSE]

\* the engine's fields take the values of e
SetEngine(e) ==
  /\ portfolio' = e.portfolio
  /\ currentPosition' = e.currentPosition
  /\ trades' = e.trades
  /\ stats' = e.tr.stats
  /\ closedTrades' = e.tr.closedTrades
  /\ peakEquity' = e.tr.peakEquity

SetRisk(rs) ==
  /\ tradingHalted' = rs.halted
  /\ haltReason' = rs.reason
  /\ haltTimestamp' = rs.ts

(***************************************************************************)
(* Inputs.                                                                 *)
(***************************************************************************)
Decision(action, quantity, stopLoss, takeProfit) ==
  [action |-> action, quantity |-> quantity, stopLoss |-> stopLoss, takeProfit |-> takeProfit]

NoCall == [op |-> "none"]

\* what is recorded of a checkTradeAllowed call: its arguments, the manager
\* before the call and the RiskCheck returned
CheckCall(decision, pf, hasPosition, ts, before, check) ==
  [op |-> "checkTradeAllowed", decision |-> decision, cash |-> pf.cash,
   totalEquity |-> pf.totalEquity, hasPosition |-> hasPosition, ts |-> ts,
   before |-> before, check |-> check]

NoPosition == [open |-> FALSE]

InitTracker(wallClock) ==
  /\ stats = initialStats(initialCapital, wallClock)
  /\ closedTrades = <<>>
  /\ peakEquity = initialCapital

InitRisk ==
  /\ tradingHalted = FALSE
  /\ haltReason = ""
  /\ haltTimestamp = 0

InitEngine ==
  /\ portfolio = [cash |-> initialCapital, holdings |-> <<>>,
                  totalEquity |-> initialCapital, timestamp |-> now]
  /\ currentPosition = NoPosition
  /\ trades = <<>>
  /\ decisions = <<>>

IdleBacktest == candles = [older |-> 0, recent |-> <<>>] /\ idx = 0 /\ pc = "off"
IdlePaper ==
  /\ candleHistory = [older |-> 0, recent |-> <<>>]
  /\ isRunning = FALSE
  /\ pollingInterval = FALSE
  /\ inv = <<>>
  /\ newCandleLog = <<>>
  /\ skipLog = 0
  /\ ticks = 0

(***************************************************************************)
(* RiskSpec: a RiskManager and a PerformanceTracker driven call by call,   *)
(* as a unit test drives them.                                             *)
(***************************************************************************)
RiskTradeEquities == {10000, 9400}     \* equity handed to addTrade
RiskTickEquities == {10000, 8400}      \* equity handed to updateEquityCurve
RiskTimes == {TimeframeMs, 3 * TimeframeMs}
RiskRich == [cash |-> 10000, totalEquity |-> 10000]
RiskPoor == [cash |-> 500, totalEquity |-> 10000]
\* the calls the driver makes: decision, portfolio, whether a position is open
RiskScenarios ==
  { <<Decision("BUY", 0, 0, 0), RiskRich, FALSE>>,
    <<Decision("BUY", 5000, 0, 0), RiskRich, FALSE>>,
    <<Decision("BUY", 0, 0, 0), RiskPoor, FALSE>>,
    <<Decision("BUY", 0, 0, 0), RiskRich, TRUE>>,
    <<Decision("BUY", 5000, 0, 0), RiskPoor, TRUE>>,
    <<Decision("SELL", 0, 0, 0), RiskRich, TRUE>>,
    <<Decision("SELL", 0, 0, 0), RiskRich, FALSE>>,
    <<Decision("HOLD", 0, 0, 0), RiskRich, FALSE>>,
    <<Decision("HOLD", 0, 0, 0), RiskPoor, TRUE>> }

\* a closed trade as the driver hands it to addTrade
RiskTrade(isWin, exitTime) ==
  [timestamp |-> exitTime, quantity |-> 1, price |-> 100, value |-> 100, fee |-> 0,
   stopLoss |-> 98, takeProfit |-> 103, reasoning |-> "driver",
   exitTime |-> exitTime, exitPrice |-> IF isWin THEN 110 ELSE 90,
   pnl |-> IF isWin THEN 10 ELSE 0 - 10, holdingPeriod |-> 0, isWin |-> isWin]

RiskInit ==
  /\ engine = "risk"
  /\ now = TimeframeMs
  /\ recoveryMinutes \in {0, 60}
  /\ slippage = 0
  /\ dashboardThrows = FALSE
  /\ InitRisk
  /\ InitTracker(now)
  /\ InitEngine
  /\ IdleBacktest
  /\ IdlePaper
  /\ lastCall = NoCall

RiskUpdates == Len(stats.equityCurve) - 1

RiskAddTrade ==
  /\ RiskUpdates < MaxCalls
  /\ \E isWin \in BOOLEAN, equity \in RiskTradeEquities :
       LET t == addTrade(tracker, RiskTrade(isWin, (RiskUpdates + 1) * TimeframeMs), equity)
       IN /\ stats' = t.stats
          /\ closedTrades' = t.closedTrades
          /\ peakEquity' = t.peakEquity
  /\ lastCall' = [op |-> "addTrade"]
  /\ UNCHANGED <<configVars, riskVars, engineVars, backtestVars, paperVars>>

RiskUpdateEquityCurve ==
  /\ RiskUpdates < MaxCalls
  /\ \E equity \in RiskTickEquities :
       LET t == updateEquityCurve(tracker, (RiskUpdates + 1) * TimeframeMs, equity)
       IN /\ stats' = t.stats
          /\ closedTrades' = t.closedTrades
          /\ peakEquity' = t.peakEquity
  /\ lastCall' = [op |-> "updateEquityCurve"]
  /\ UNCHANGED <<configVars, riskVars, engineVars, backtestVars, paperVars>>

RiskCheckTradeAllowed ==
  /\ \E sc \in RiskScenarios, ts \in RiskTimes :
       LET r == checkTradeAllowed(riskState, sc[1], sc[2], stats, sc[3], ts,
                                  recoveryMinutes, now)
       IN /\ tradingHalted' = r.rs.halted
          /\ haltReason' = r.rs.reason
          /\ haltTimestamp' = r.rs.ts
          /\ lastCall' = CheckCall(sc[1], sc[2], sc[3], ts, riskState, r.check)
  /\ UNCHANGED <<configVars, trackerVars, engineVars, backtestVars, paperVars>>

RiskResumeTrading ==
  /\ LET r == resumeTrading(riskState)
     IN /\ tradingHalted' = r.halted
        /\ haltReason' = r.reason
        /\ haltTimestamp' = r.ts
  /\ lastCall' = [op |-> "resumeTrading"]
  /\ UNCHANGED <<configVars, trackerVars, engineVars, backtestVars, paperVars>>

RiskNext ==
  \/ RiskAddTrade
  \/ RiskUpdateEquityCurve
  \/ RiskCheckTradeAllowed
  \/ RiskResumeTrading

RiskSpec == RiskInit /\ [][RiskNext]_vars


(***************************************************************************)
(* TrackerSpec: a PerformanceTracker alone, handed equities that rise      *)
(* above the initial capital as well as fall below it.                     *)
(***************************************************************************)
TrackerEquities == {10000, 9400, 12000, 11300}

TrackerInit ==
  /\ engine = "tracker"
  /\ now = TimeframeMs
  /\ recoveryMinutes = 0
  /\ slippage = 0
  /\ dashboardThrows = FALSE
  /\ InitRisk
  /\ InitTracker(now)
  /\ InitEngine
  /\ IdleBacktest
  /\ IdlePaper
  /\ lastCall = NoCall

TrackerAddTrade ==
  /\ RiskUpdates < MaxCalls
  /\ \E isWin \in BOOLEAN, equity \in TrackerEquities :
       LET t == addTrade(tracker, RiskTrade(isWin, (RiskUpdates + 1) * TimeframeMs), equity)
       IN /\ stats' = t.stats
          /\ closedTrades' = t.closedTrades
          /\ peakEquity' = t.peakEquity
  /\ lastCall' = [op |-> "addTrade"]
  /\ UNCHANGED <<configVars, riskVars, engineVars, backtestVars, paperVars>>

TrackerUpdateEquityCurve ==
  /\ RiskUpdates < MaxCalls
  /\ \E equity \in TrackerEquities :
       LET t == updateEquityCurve(tracker, (RiskUpdates + 1) * TimeframeMs, equity)
       IN /\ stats' = t.stats
          /\ closedTrades' = t.closedTrades
          /\ peakEquity' = t.peakEquity
  /\ lastCall' = [op |-> "updateEquityCurve"]
  /\ UNCHANGED <<configVars, riskVars, engineVars, backtestVars, paperVars>>

TrackerNext == TrackerAddTrade \/ TrackerUpdateEquityCurve

TrackerSpec == TrackerInit /\ [][TrackerNext]_vars

(***************************************************************************)
(* DeepSeekClient.getDecision.  What the request comes back with is        *)
(* [kind, content]: kind "response" with the content of the first choice,  *)
(* or a failure ("network error", "timeout", "no choices").  A content is  *)
(* either not JSON or a JSON object with the fields below; confidence -1   *)
(* is a missing or non-numeric confidence.  An AIDecision is               *)
(* [action, confidence, quantity, stopLoss, takeProfit, reasoning]; the    *)
(* reasoning text is kept as its origin: "provider" for the model's own    *)
(* words, "AI Error" for the fallback's "AI Error: <message>. Defaulting   *)
(* to HOLD for safety.".                                                   *)
(***************************************************************************)
Thrown == [thrown |-> TRUE]

validateNumber(value, min, max, defaultValue) ==
  IF value < min \/ value > max THEN defaultValue ELSE value

\* the AIDecision parsed from the content, or Thrown
parseAIResponse(content) ==
  IF ~content.json \/ content.action \notin {"BUY", "SELL", "HOLD"}
    THEN Thrown
    ELSE [thrown |-> FALSE,
          action |-> content.action,
          confidence |-> validateNumber(content.confidence, 0, 10000, 5000),
          quantity |-> IF content.quantity # 0
                         THEN validateNumber(content.quantity, 0, 10000, 1000)
                         ELSE 0,
          stopLoss |-> content.stopLoss,
          takeProfit |-> content.takeProfit,
          reasoning |-> "provider"]

\* getFallbackDecision returning the last action asked for in place of HOLD
getFallbackDecision_sell(error) ==
  [action |-> "SELL", confidence |-> 0, quantity |-> 0, stopLoss |-> 0,
   takeProfit |-> 0, reasoning |-> "AI Error"]

getFallbackDecision(error) ==
  [action |-> "HOLD", confidence |-> 0, quantity |-> 0, stopLoss |-> 0,
   takeProfit |-> 0, reasoning |-> "AI Error"]

getDecision(outcome) ==
  IF outcome.kind # "response"
    THEN getFallbackDecision(outcome.kind)
    ELSE LET parsed == parseAIResponse(outcome.content)
         IN IF parsed.thrown
              THEN getFallbackDecision("Invalid AI response format")
              ELSE [action |-> parsed.action, confidence |-> parsed.confidence,
                    quantity |-> parsed.quantity, stopLoss |-> parsed.stopLoss,
                    takeProfit |-> parsed.takeProfit, reasoning |-> parsed.reasoning]

\* the provider answering with the decision d, well formed
Response(d) ==
  [kind |-> "response",
   content |-> [json |-> TRUE, action |-> d.action, confidence |-> 8000,
                quantity |-> d.quantity, stopLoss |-> d.stopLoss,
                takeProfit |-> d.takeProfit]]

\* the ways a request fails
Failures ==
  { [kind |-> "network error"], [kind |-> "timeout"], [kind |-> "no choices"],
    [kind |-> "response", content |-> [json |-> FALSE]],
    [kind |-> "response",
     content |-> [json |-> TRUE, action |-> "WAIT", confidence |-> 0 - 1,
                  quantity |-> 0, stopLoss |-> 0, takeProfit |-> 0]] }

Outcomes(ds) == { Response(d) : d \in ds } \cup Failures

(***************************************************************************)
(* BacktestEngine.run.  candles is the loaded sequence: the first 50       *)
(* candles are only ever read by the indicators and are kept as a count    *)
(* (older); recent holds candles[50], candles[51], ...  idx is i - 49.     *)
(* A sequence of fewer than 50 candles is a smaller count and no recent.   *)
(***************************************************************************)
Closes == {100, 80, 110}
\* the second BUY suggests a quantity, and a stop loss above the entry price
EngineDecisions ==
  { Decision("BUY", 0, 0, 0), Decision("BUY", 5000, 103, 0),
    Decision("SELL", 0, 0, 0), Decision("HOLD", 0, 0, 0) }
\* slippage (basis points) and circuitBreakerRecoveryMinutes of a run
Configs == { <<0, 0>>, <<100, 60>> }
PaperConfigs == { <<100, 60>> }

Candle(k, close) == [timestamp |-> k * TimeframeMs, close |-> close]

\* loaded sequences shorter than the loop's first index
ShortLoads == {0, 49}

BacktestInit ==
  /\ engine = "backtest"
  /\ now = 100 * TimeframeMs
  /\ \E c \in Configs : slippage = c[1] /\ recoveryMinutes = c[2]
  /\ dashboardThrows = FALSE
  /\ InitRisk
  /\ InitTracker(now)
  /\ InitEngine
  /\ \/ \E n \in 0..MaxCandles :
          \E cl \in [1..n -> Closes] :
            candles = [older |-> 50, recent |-> [k \in 1..n |-> Candle(50 + k, cl[k])]]
     \/ \E n \in ShortLoads : candles = [older |-> n, recent |-> <<>>]
  /\ idx = 1
  /\ pc = "loop"
  /\ IdlePaper
  /\ lastCall = NoCall

\* processCandle skipping the exit check while the risk manager is halted
BacktestProcessCandle_gatedExit ==
  /\ engine = "backtest" /\ pc = "loop"
  /\ idx <= Len(candles.recent)
  /\ \E outcome \in Outcomes(EngineDecisions) :
       LET candle == candles.recent[idx]
           decision == getDecision(outcome)
           e1 == IF tradingHalted
                   THEN updatePortfolio(engineState, candle.close, candle.timestamp)
                   ELSE beforeDecision(engineState, candle, slippage, now)
           r == afterDecision(e1, riskState, decision, candle, slippage,
                              recoveryMinutes, now)
       IN IF e1.fault
            THEN SetEngine(e1) /\ UNCHANGED <<riskVars, decisions, lastCall>>
            ELSE /\ SetEngine(r.e)
                 /\ SetRisk(r.rs)
                 /\ decisions' = Append(decisions, decision)
                 /\ lastCall' = CheckCall(decision, e1.portfolio, e1.currentPosition.open,
                                          candle.timestamp, riskState, r.check)
  /\ idx' = idx + 1
  /\ UNCHANGED <<configVars, candles, pc, paperVars>>

\* one iteration of the loop: processCandle(candles.slice(0, i + 1), candles[i])
BacktestProcessCandle ==
  /\ engine = "backtest" /\ pc = "loop"
  /\ idx <= Len(candles.recent)
  /\ \E outcome \in Outcomes(EngineDecisions) :
       LET candle == candles.recent[idx]
           decision == getDecision(outcome)
           e1 == beforeDecision(engineState, candle, slippage, now)
           r == afterDecision(e1, riskState, decision, candle, slippage,
                              recoveryMinutes, now)
       IN IF e1.fault
            THEN SetEngine(e1) /\ UNCHANGED <<riskVars, decisions, lastCall>>
            ELSE /\ SetEngine(r.e)
                 /\ SetRisk(r.rs)
                 /\ decisions' = Append(decisions, decision)
                 /\ lastCall' = CheckCall(decision, e1.portfolio, e1.currentPosition.open,
                                          candle.timestamp, riskState, r.check)
  /\ idx' = idx + 1
  /\ UNCHANGED <<configVars, candles, pc, paperVars>>

\* the end of run without the closing of the open position
BacktestFinish_noForceClose ==
  /\ engine = "backtest" /\ pc = "loop"
  /\ idx > Len(candles.recent)
  /\ pc' = "done"
  /\ UNCHANGED <<configVars, riskVars, trackerVars, engineVars, candles, idx, paperVars,
                 lastCall>>

\* after the loop: close the open position against the last candle, build the result
BacktestFinish ==
  /\ engine = "backtest" /\ pc = "loop"
  /\ idx > Len(candles.recent)
  /\ IF currentPosition.open
       THEN SetEngine(closePosition(engineState, candles.recent[Len(candles.recent)],
                                    "Backtest ended", slippage, now))
       ELSE UNCHANGED <<portfolio, currentPosition, trades, trackerVars>>
  /\ pc' = "done"
  /\ UNCHANGED <<configVars, riskVars, decisions, candles, idx, paperVars, lastCall>>

(***************************************************************************)
(* SlideSpec: BacktestEngine.run on a falling market.  The first close is  *)
(* 100, the next 81, then 80 twice: a position bought at 100 is stopped    *)
(* out at 81 for a loss just under the daily loss limit, and one bought at *)
(* 81 is still open, marked down at 80, when the limit is crossed and the  *)
(* breaker trips.  One more candle follows, below the stop, above the      *)
(* target, or between them.                                                *)
(***************************************************************************)
SlideCloses == <<100, 81, 80, 80>>
SlideTails == {70, 80, 90}

SlideInit ==
  /\ engine = "backtest"
  /\ now = 100 * TimeframeMs
  /\ slippage = 0
  /\ recoveryMinutes \in {0, 60}
  /\ dashboardThrows = FALSE
  /\ InitRisk
  /\ InitTracker(now)
  /\ InitEngine
  /\ \E tail \in SlideTails :
       candles = [older |-> 50,
                  recent |-> [k \in 1..(Len(SlideCloses) + 1) |->
                                Candle(50 + k, Append(SlideCloses, tail)[k])]]
  /\ idx = 1
  /\ pc = "loop"
  /\ IdlePaper
  /\ lastCall = NoCall

SlideNext == BacktestProcessCandle \/ BacktestFinish

SlideSpec == SlideInit /\ [][SlideNext]_vars


(***************************************************************************)
(* PaperTradingEngine.  candleHistory keeps, like candles above, its older *)
(* entries as a count and its most recent ones as a sequence.  Each call   *)
(* of fetchAndProcessLatestCandle is an invocation inv[i] that suspends at *)
(* its two awaits of the network: getOHLC ("fetch") and getDecision        *)
(* ("decide").  The awaits of the engine's own async methods resume in the *)
(* same turn of the event loop and are not suspension points.  pc is the   *)
(* session: "new", "starting" (start() awaits the first invocation),       *)
(* "running" (the timer is armed), "stopped".                              *)
(***************************************************************************)
PaperCloses == {100, 80}
PaperDecisions ==
  { Decision("BUY", 0, 0, 0), Decision("SELL", 0, 0, 0), Decision("HOLD", 0, 0, 0) }
\* candles getHistoricalOHLC returns for the last 24 hours: 48 of 30 minutes, 1440 of 1 minute
LoadedCounts == {48, 1440}
LoadedLast == 60               \* index of the last loaded candle
NoCandle == [timestamp |-> 0, close |-> 0]
IdleInvocation == [pc |-> "idle", first |-> FALSE, candle |-> NoCandle]

HistoryLen(h) == h.older + Len(h.recent)
LastCandle(h) == h.recent[Len(h.recent)]

\* candleHistory.push(c), then slice(-500) when longer than 500
pushCandle(h, c) ==
  LET pushed == [older |-> h.older, recent |-> Append(h.recent, c)]
  IN IF HistoryLen(pushed) > 500
       THEN [older |-> 500 - Len(pushed.recent), recent |-> pushed.recent]
       ELSE pushed


\* the duplicate test with < in place of <=
alreadyProcessed_strict(h, latestCandle) ==
  HistoryLen(h) > 0 /\ latestCandle.timestamp < LastCandle(h).timestamp

\* the latest candle is not newer than the last one in the history
alreadyProcessed(h, latestCandle) ==
  HistoryLen(h) > 0 /\ latestCandle.timestamp <= LastCandle(h).timestamp

\* the engine as constructed, whatever dashboard it is given
PaperSession ==
  /\ engine = "paper"
  /\ now = LoadedLast * TimeframeMs
  /\ \E c \in PaperConfigs : slippage = c[1] /\ recoveryMinutes = c[2]
  /\ InitRisk
  /\ InitTracker(now)
  /\ InitEngine
  /\ candles = [older |-> 0, recent |-> <<>>]
  /\ idx = 0
  /\ pc = "new"
  /\ candleHistory = [older |-> 0, recent |-> <<>>]
  /\ isRunning = FALSE
  /\ pollingInterval = FALSE
  /\ inv = [i \in 1..MaxInFlight |-> IdleInvocation]
  /\ newCandleLog = <<>>
  /\ skipLog = 0
  /\ ticks = 0
  /\ lastCall = NoCall

\* no dashboard, or one whose broadcastUpdate returns
PaperInit == PaperSession /\ dashboardThrows = FALSE

\* the invocation i returns; start() was awaiting the first one and now arms the timer
Finish(i) ==
  /\ inv' = [inv EXCEPT ![i] = IdleInvocation]
  /\ IF inv[i].first
       THEN pollingInterval' = TRUE /\ pc' = "running"
       ELSE UNCHANGED <<pollingInterval, pc>>

\* start(): isRunning, loadInitialHistory, then the first fetchAndProcessLatestCandle
PaperStart ==
  /\ engine = "paper" /\ pc = "new"
  /\ isRunning' = TRUE
  /\ \E n \in LoadedCounts :
       candleHistory' = [older |-> n - 1, recent |-> <<Candle(LoadedLast, 100)>>]
  /\ inv' = [inv EXCEPT ![1] = [pc |-> "fetch", first |-> TRUE, candle |-> NoCandle]]
  /\ pc' = "starting"
  /\ UNCHANGED <<configVars, riskVars, trackerVars, engineVars, candles, idx,
                 pollingInterval, newCandleLog, skipLog, ticks, lastCall>>

\* the setInterval callback
PaperTimerFire(i) ==
  /\ engine = "paper" /\ pollingInterval
  /\ ticks < MaxPolls
  /\ inv[i].pc = "idle"
  /\ \A j \in 1..(i - 1) : inv[j].pc # "idle"
  /\ IF isRunning
       THEN inv' = [inv EXCEPT ![i] = [pc |-> "fetch", first |-> FALSE, candle |-> NoCandle]]
       ELSE UNCHANGED inv
  /\ ticks' = ticks + 1
  /\ UNCHANGED <<configVars, riskVars, trackerVars, engineVars, backtestVars,
                 candleHistory, isRunning, pollingInterval, newCandleLog, skipLog, lastCall>>

\* getOHLC throws, or returns no candle: the invocation ends
PaperFetchNothing(i) ==
  /\ engine = "paper" /\ inv[i].pc = "fetch"
  /\ Finish(i)
  /\ UNCHANGED <<configVars, riskVars, trackerVars, engineVars, candles, idx,
                 candleHistory, isRunning, newCandleLog, skipLog, ticks, lastCall>>

\* getOHLC returns and its last candle was seen before
PaperFetchSeen(i) ==
  /\ engine = "paper" /\ inv[i].pc = "fetch"
  /\ \E k \in {0, 1} :
       alreadyProcessed(candleHistory,
                        [timestamp |-> LastCandle(candleHistory).timestamp - k * TimeframeMs,
                         close |-> 100])
  /\ skipLog' = skipLog + 1
  /\ Finish(i)
  /\ UNCHANGED <<configVars, riskVars, trackerVars, engineVars, candles, idx,
                 candleHistory, isRunning, newCandleLog, ticks, lastCall>>

\* getOHLC returns a candle; processCandle runs up to its await of getDecision,
\* or up to a throw: of the dashboard while an exit is recorded, or of the
\* indicators for a history shorter than 50
PaperFetchCandle(i) ==
  /\ engine = "paper" /\ inv[i].pc = "fetch"
  /\ \E k \in {0, 1}, close \in PaperCloses :
       LET latestCandle == [timestamp |-> LastCandle(candleHistory).timestamp + k * TimeframeMs,
                            close |-> close]
           h == pushCandle(candleHistory, latestCandle)
           e1 == beforeDecision(engineState, latestCandle, slippage, now)
       IN /\ ~alreadyProcessed(candleHistory, latestCandle)
          /\ newCandleLog' = Append(newCandleLog, latestCandle.timestamp)
          /\ candleHistory' = h
          /\ SetEngine(e1)
          /\ IF e1.fault \/ HistoryLen(h) < 50
               THEN Finish(i)
               ELSE /\ inv' = [inv EXCEPT ![i].pc = "decide", ![i].candle = latestCandle]
                    /\ UNCHANGED <<pollingInterval, pc>>
  /\ UNCHANGED <<configVars, riskVars, decisions, candles, idx, isRunning,
                 skipLog, ticks, lastCall>>

\* getDecision returns: the rest of processCandle
PaperDecisionReturn(i) ==
  /\ engine = "paper" /\ inv[i].pc = "decide"
  /\ \E outcome \in Outcomes(PaperDecisions) :
       LET decision == getDecision(outcome)
           r == afterDecision(engineState, riskState, decision, inv[i].candle,
                              slippage, recoveryMinutes, now)
       IN /\ SetEngine(r.e)
          /\ SetRisk(r.rs)
          /\ decisions' = Append(decisions, decision)
          /\ lastCall' = CheckCall(decision, portfolio, currentPosition.open,
                                   inv[i].candle.timestamp, riskState, r.check)
  /\ Finish(i)
  /\ UNCHANGED <<configVars, candles, idx, candleHistory, isRunning, newCandleLog,
                 skipLog, ticks>>

\* stop(), called once start() has returned
PaperStop ==
  /\ engine = "paper" /\ pc = "running"
  /\ isRunning' = FALSE
  /\ pollingInterval' = FALSE
  /\ IF currentPosition.open /\ HistoryLen(candleHistory) > 0
       THEN SetEngine(closePosition(engineState, LastCandle(candleHistory),
                                    "Paper Trading stopped", slippage, now))
       ELSE UNCHANGED <<portfolio, currentPosition, trades, trackerVars>>
  /\ pc' = "stopped"
  /\ UNCHANGED <<configVars, riskVars, decisions, candles, idx, candleHistory, inv,
                 newCandleLog, skipLog, ticks, lastCall>>

Init == BacktestInit \/ PaperInit

Next ==
  \/ BacktestProcessCandle
  \/ BacktestFinish
  \/ PaperStart
  \/ \E i \in 1..MaxInFlight : PaperTimerFire(i)
  \/ \E i \in 1..MaxInFlight : PaperFetchNothing(i)
  \/ \E i \in 1..MaxInFlight : PaperFetchSeen(i)
  \/ \E i \in 1..MaxInFlight : PaperFetchCandle(i)
  \/ \E i \in 1..MaxInFlight : PaperDecisionReturn(i)
  \/ PaperStop

Spec == Init /\ [][Next]_vars

(***************************************************************************)
(* SinkSpec: the paper session with a dashboard connected, whose           *)
(* broadcastUpdate may be one that throws.                                 *)
(***************************************************************************)
SinkInit == PaperSession /\ dashboardThrows \in BOOLEAN

SinkNext ==
  \/ PaperStart
  \/ \E i \in 1..MaxInFlight : PaperTimerFire(i)
  \/ \E i \in 1..MaxInFlight : PaperFetchNothing(i)
  \/ \E i \in 1..MaxInFlight : PaperFetchSeen(i)
  \/ \E i \in 1..MaxInFlight : PaperFetchCandle(i)
  \/ \E i \in 1..MaxInFlight : PaperDecisionReturn(i)
  \/ PaperStop

SinkSpec == SinkInit /\ [][SinkNext]_vars


(***************************************************************************)
(* SizeSpec: calculatePositionSize applied to one decision, portfolio and  *)
(* price, all positive.                                                    *)
(***************************************************************************)
SizePrices == {100, 101, 3}
SizeQuantities == {0, 1000, 5000, 10000}
\* the decision's stopLoss: absent, or the price plus one of these offsets
SizeStopOffsets == {0, 0 - 1, 0 - 2, 3}
SizePortfolios ==
  { [cash |-> 10000, totalEquity |-> 10000], [cash |-> 7494, totalEquity |-> 9994],
    [cash |-> 100, totalEquity |-> 100], [cash |-> 1, totalEquity |-> 1] }
SizeInputs ==
  { [op |-> "input", decision |-> Decision("BUY", q, sl, 0), pf |-> pf, price |-> price] :
      q \in SizeQuantities, sl \in {0}, pf \in SizePortfolios, price \in SizePrices }
  \cup
  { [op |-> "input", decision |-> Decision("BUY", q, price + d, 0), pf |-> pf, price |-> price] :
      q \in SizeQuantities, d \in SizeStopOffsets, pf \in SizePortfolios, price \in SizePrices }

SizeInit ==
  /\ engine = "size"
  /\ now = TimeframeMs
  /\ recoveryMinutes = 0
  /\ slippage = 0
  /\ dashboardThrows = FALSE
  /\ InitRisk
  /\ InitTracker(now)
  /\ InitEngine
  /\ IdleBacktest
  /\ IdlePaper
  /\ lastCall \in SizeInputs

SizeCalculate ==
  /\ lastCall.op = "input"
  /\ lastCall' = [op |-> "calculatePositionSize", decision |-> lastCall.decision,
                  pf |-> lastCall.pf, price |-> lastCall.price,
                  result |-> calculatePositionSize(lastCall.decision, lastCall.pf,
                                                   lastCall.price)]
  /\ UNCHANGED <<configVars, riskVars, trackerVars, engineVars, backtestVars, paperVars>>

SizeNext == SizeCalculate

SizeSpec == SizeInit /\ [][SizeNext]_vars

(***************************************************************************)
(* ProfileSpec: calculateVolumeProfile on the 50 most recent candles, its  *)
(* value-area loop taken one iteration at a time.  Candles are [low, high, *)
(* volume]; the close lies between low and high and does not move the      *)
(* price range.  Candles of volume 0 add nothing to a bucket, so of the 50 *)
(* only the ones carrying volume are enumerated.                           *)
(***************************************************************************)
bucketCount == 20
MaxProfileCandles == 3

ProfileLow == 100
ProfileHigh == 120
ProfileVolumes == {0, 3, 5}
SpanVolumes == {0, 4}
\* low/high pairs with a whole average price inside the range
ProfileShapes == {<<100, 100>>, <<100, 102>>, <<100, 104>>, <<108, 112>>,
                  <<116, 120>>, <<120, 120>>}
ProfileCandle(shape, volume) == [low |-> shape[1], high |-> shape[2], volume |-> volume]
\* the candle that spans the range fixes minPrice and maxPrice
SpanCandle(volume) == [low |-> ProfileLow, high |-> ProfileHigh, volume |-> volume]
ProfileInputs ==
  {<<SpanCandle(v)>> \o s :
     v \in SpanVolumes,
     s \in [1..MaxProfileCandles ->
              {ProfileCandle(sh, vol) : sh \in ProfileShapes, vol \in ProfileVolumes}]}

minPrice(cs) == CHOOSE x \in {cs[k].low : k \in 1..Len(cs)} :
                   \A k \in 1..Len(cs) : x <= cs[k].low
maxPrice(cs) == CHOOSE x \in {cs[k].high : k \in 1..Len(cs)} :
                   \A k \in 1..Len(cs) : x >= cs[k].high

\* Math.min(Math.floor((avgPrice - minPrice) / bucketSize), bucketCount - 1),
\* with bucketSize = (maxPrice - minPrice) / bucketCount
bucketIndex(c, lo, hi) ==
  Min((((c.high + c.low) - 2 * lo) * bucketCount) \div (2 * (hi - lo)),
      bucketCount - 1)

RECURSIVE distribute(_, _, _, _)
distribute(cs, k, lo, hi) ==
  IF k = 0 THEN [i \in 0..(bucketCount - 1) |-> 0]
  ELSE LET b == distribute(cs, k - 1, lo, hi)
           i == bucketIndex(cs[k], lo, hi)
       IN [b EXCEPT ![i] = @ + cs[k].volume]

volumeBuckets(cs) ==
  distribute(cs, Len(cs), minPrice(cs), maxPrice(cs))

\* the first bucket of the highest volume
RECURSIVE maxVolumeIndexUpTo(_, _)
maxVolumeIndexUpTo(b, i) ==
  IF i = 0 THEN 0
  ELSE LET m == maxVolumeIndexUpTo(b, i - 1)
       IN IF b[i] > b[m] THEN i ELSE m
maxVolumeIndex(b) == maxVolumeIndexUpTo(b, bucketCount - 1)

RECURSIVE SumUpTo(_, _)
SumUpTo(b, i) == IF i < 0 THEN 0 ELSE b[i] + SumUpTo(b, i - 1)
totalVolume(b) == SumUpTo(b, bucketCount - 1)

\* accumulatedVolume < targetVolume, with targetVolume = totalVolume * 0.7
belowTarget(accumulatedVolume, b) == accumulatedVolume * 10 < totalVolume(b) * 7

upperVol(p) ==
  IF p.upperIndex < bucketCount - 1 THEN p.volumeBuckets[p.upperIndex + 1] ELSE 0
lowerVol(p) ==
  IF p.lowerIndex > 0 THEN p.volumeBuckets[p.lowerIndex - 1] ELSE 0
expandsUp(p) == upperVol(p) > lowerVol(p) /\ p.upperIndex < bucketCount - 1

ProfileInit ==
  /\ engine = "profile"
  /\ now = TimeframeMs
  /\ recoveryMinutes = 0
  /\ slippage = 0
  /\ dashboardThrows = FALSE
  /\ InitRisk
  /\ InitTracker(now)
  /\ InitEngine
  /\ IdleBacktest
  /\ IdlePaper
  /\ \E cs \in ProfileInputs : lastCall = [op |-> "input", candles |-> cs]

ProfileUnchanged ==
  UNCHANGED <<configVars, riskVars, trackerVars, engineVars, backtestVars, paperVars>>

\* lines 472-509: buckets, POC, and the loop's initial variables
ProfileStart ==
  /\ lastCall.op = "input"
  /\ LET b == volumeBuckets(lastCall.candles)
     IN lastCall' = [op |-> "calculateVolumeProfile", at |-> "loop",
                     volumeBuckets |-> b,
                     maxVolumeIndex |-> maxVolumeIndex(b),
                     accumulatedVolume |-> b[maxVolumeIndex(b)],
                     upperIndex |-> maxVolumeIndex(b),
                     lowerIndex |-> maxVolumeIndex(b)]
  /\ ProfileUnchanged

InLoop ==
  /\ lastCall.op = "calculateVolumeProfile"
  /\ lastCall.at = "loop"
  /\ belowTarget(lastCall.accumulatedVolume, lastCall.volumeBuckets)

ProfileExpandUp ==
  /\ InLoop
  /\ expandsUp(lastCall)
  /\ lastCall' = [lastCall EXCEPT !.upperIndex = @ + 1,
                                  !.accumulatedVolume = @ + upperVol(lastCall)]
  /\ ProfileUnchanged

ProfileExpandDown ==
  /\ InLoop
  /\ ~expandsUp(lastCall)
  /\ lastCall.lowerIndex > 0
  /\ lastCall' = [lastCall EXCEPT !.lowerIndex = @ - 1,
                                  !.accumulatedVolume = @ + lowerVol(lastCall)]
  /\ ProfileUnchanged

\* the loop condition fails, or the break at line 523
ProfileReturn ==
  /\ lastCall.op = "calculateVolumeProfile"
  /\ lastCall.at = "loop"
  /\ \/ ~belowTarget(lastCall.accumulatedVolume, lastCall.volumeBuckets)
     \/ ~expandsUp(lastCall) /\ lastCall.lowerIndex = 0
  /\ lastCall' = [lastCall EXCEPT !.at = "done"]
  /\ ProfileUnchanged

ProfileNext == ProfileStart \/ ProfileExpandUp \/ ProfileExpandDown \/ ProfileReturn

ProfileSpec == ProfileInit /\ [][ProfileNext]_vars

(***************************************************************************)
(* Properties.                                                             *)
(***************************************************************************)
IsCheck == lastCall.op = "checkTradeAllowed"

\* the halt triggers, read off the statistics
ConsecutiveLossTrigger == stats.consecutiveLosses >= maxConsecutiveLosses
DailyLossTrigger ==
  stats.currentDrawdown.num * 100 >= dailyLossLimit * stats.currentDrawdown.den
MaxDrawdownTrigger ==
  stats.maxDrawdownPercentage.num * 100 >= maxDrawdown * stats.maxDrawdownPercentage.den
AnyTrigger == ConsecutiveLossTrigger \/ DailyLossTrigger \/ MaxDrawdownTrigger
FirstTrigger ==
  IF ConsecutiveLossTrigger THEN "consecutive losses"
  ELSE IF DailyLossTrigger THEN "daily loss limit"
  ELSE "max drawdown"

\* the recorded call's decision passes the checks that do not halt
CashSuffices(c) ==
  c.cash * 10000 >= c.totalEquity * (IF c.decision.quantity # 0 THEN c.decision.quantity ELSE 1000)
PassesNonHalting(c) ==
  /\ c.decision.action = "BUY" => CashSuffices(c) /\ ~c.hasPosition
  /\ c.decision.action = "SELL" => c.hasPosition

RecoveryMs == recoveryMinutes * 60 * 1000

\* C1: in both engines the number of positions opened exceeds the number closed
\* by one while a position is open and by none while flat, and holdings has
\* its entry exactly while a position is open: opens and closes alternate,
\* Flat -> Open -> Flat, a BUY never opens over an open position and a SELL
\* or exit never closes when flat.
C1_PositionLifecycle ==
  /\ Len(trades) - Len(closedTrades) = (IF currentPosition.open THEN 1 ELSE 0)
  /\ (portfolio.holdings # <<>>) = currentPosition.open

\* C1 witness: a position is open for the second time (one closed before it)
\* and a BUY has just been refused because of it.
C1_Witness ==
  /\ currentPosition.open
  /\ Len(closedTrades) >= 1
  /\ IsCheck
  /\ lastCall.decision.action = "BUY"
  /\ lastCall.check.cause = "position already open"

\* C2 (as claimed): with a 60 minute recovery window, a call made at least 60
\* minutes after a halt for consecutive losses, with a decision that passes
\* the non-halting checks, is allowed again.
C2_RecoveredCallAllowed ==
  ( /\ IsCheck
    /\ recoveryMinutes = 60
    /\ lastCall.before.halted
    /\ lastCall.before.reason = "consecutive losses"
    /\ lastCall.ts - lastCall.before.ts >= 60 * 60 * 1000
    /\ PassesNonHalting(lastCall) )
  => lastCall.check.allowed

\* C3: a call made while halted with recovery not due (window zero, or fewer
\* than recoveryMinutes elapsed since the halt) is refused whatever the
\* decision and the statistics, and leaves halted, haltReason and
\* haltTimestamp as they were; with a zero window a halt ends only by
\* resumeTrading().
C3_HaltedStateKept ==
  ( /\ IsCheck
    /\ lastCall.before.halted
    /\ (recoveryMinutes = 0 \/ lastCall.ts - lastCall.before.ts < RecoveryMs) )
  => /\ ~lastCall.check.allowed
     /\ riskState = lastCall.before
C3_OnlyResumeClears ==
  (recoveryMinutes = 0 /\ tradingHalted /\ ~tradingHalted') => lastCall'.op = "resumeTrading"
C3_HaltedStaysHalted == [](C3_HaltedStateKept) /\ [][C3_OnlyResumeClears]_vars

\* C3 witness: no recovery window, a call long after the halt, refused.
C3_Witness ==
  /\ IsCheck
  /\ recoveryMinutes = 0
  /\ lastCall.before.halted
  /\ lastCall.ts - lastCall.before.ts >= 60 * 60 * 1000
  /\ tradingHalted

\* C4: a call made while Active with a halt trigger holding halts the manager
\* and is refused; the reason recorded and returned is that of the first
\* trigger in the order consecutive losses, daily loss, max drawdown, and
\* haltTimestamp is the timestamp of the call.
C4_HaltOnTrigger ==
  (IsCheck /\ ~lastCall.before.halted /\ AnyTrigger)
  => /\ tradingHalted
     /\ ~lastCall.check.allowed
     /\ haltReason = FirstTrigger
     /\ lastCall.check.cause = FirstTrigger
     /\ lastCall.check.prefix = ""
     /\ haltTimestamp = lastCall.ts

\* C4 witness: two triggers hold at once and the higher priority one is recorded.
C4_Witness ==
  /\ IsCheck
  /\ ~lastCall.before.halted
  /\ ConsecutiveLossTrigger /\ DailyLossTrigger
  /\ haltReason = "consecutive losses"
  /\ haltTimestamp = lastCall.ts /\ haltTimestamp # now

\* C5 (as claimed): an Active call with a BUY whose quantity exceeds
\* maxPositionSize, and that no other check rejects, is allowed and returns
\* adjustedQuantity = maxPositionSize.
C5_ClampReturned ==
  ( /\ IsCheck
    /\ ~lastCall.before.halted
    /\ ~AnyTrigger
    /\ lastCall.decision.action = "BUY"
    /\ lastCall.decision.quantity > maxPositionSize
    /\ PassesNonHalting(lastCall) )
  => /\ lastCall.check.allowed
     /\ lastCall.check.adjustedQuantity = maxPositionSize

\* C6: an Active call with no halt trigger holding is refused exactly when the
\* decision is a BUY with a position open, a BUY with cash below the
\* required amount, or a SELL with no position; refused or not, the manager
\* stays Active with its halt fields untouched (so a later valid decision is
\* allowed).
C6_RejectionsDoNotHalt ==
  (IsCheck /\ ~lastCall.before.halted /\ ~AnyTrigger)
  => /\ lastCall.check.allowed = PassesNonHalting(lastCall)
     /\ riskState = lastCall.before
     /\ ~tradingHalted

\* C6 witness: a BUY refused for lack of cash, the manager still Active.
C6_Witness ==
  /\ IsCheck
  /\ ~lastCall.before.halted /\ ~AnyTrigger
  /\ lastCall.decision.action = "BUY"
  /\ ~CashSuffices(lastCall)
  /\ lastCall.check.cause = "insufficient cash"
  /\ ~tradingHalted

\* C7 (as claimed): with zero slippage, a trade closed at the price it was
\* opened at has pnl = -(entryFee + exitFee).
C7_RoundTripPnl ==
  \A i \in 1..Len(closedTrades) :
    (slippage = 0 /\ closedTrades[i].exitPrice = closedTrades[i].price)
    => closedTrades[i].pnl = 0 - (trades[i].fee + closedTrades[i].fee)

\* C8: for a positive equity and price, the quantity calculatePositionSize
\* returns is a number and is at most maxPositionSize * totalEquity / price,
\* whatever the decision's quantity and stopLoss (absent, or equal to the price).
C8_SizeWithinCap ==
  lastCall.op = "calculatePositionSize"
  => /\ lastCall.result.special = ""
     /\ lastCall.result.v * lastCall.price * 10000
          <= maxPositionSize * lastCall.pf.totalEquity

\* C8 witness: the stop distance is zero and the decision asks for everything;
\* the size returned is the cap itself.
C8_Witness ==
  /\ lastCall.op = "calculatePositionSize"
  /\ lastCall.decision.stopLoss = lastCall.price
  /\ lastCall.decision.quantity = 10000
  /\ lastCall.result.v > 0
  /\ lastCall.result.v =
       (lastCall.pf.totalEquity * maxPositionSize) \div (10000 * lastCall.price)

\* C9 (as claimed): in paper trading at most one invocation of the pipeline is
\* in flight at any time.
C9_NoOverlap ==
  engine = "paper" => Cardinality({i \in 1..MaxInFlight : inv[i].pc # "idle"}) <= 1

\* C10: in paper trading every candle timestamp enters the pipeline at most
\* once: the timestamps logged as new candles, and those of candleHistory,
\* are strictly increasing, the history gains exactly one entry per candle
\* that entered the pipeline, and no more decisions are requested than
\* candles entered it.
C10_ProcessedOnce ==
  (engine = "paper" /\ pc # "new")
  => /\ \A i, j \in 1..Len(newCandleLog) : i < j => newCandleLog[i] < newCandleLog[j]
     /\ \A i, j \in 1..Len(candleHistory.recent) :
          i < j => candleHistory.recent[i].timestamp < candleHistory.recent[j].timestamp
     /\ Len(candleHistory.recent) = 1 + Len(newCandleLog)
     /\ Len(decisions) <= Len(newCandleLog)

\* C10 witness: a candle went through the pipeline and a later poll that
\* returned nothing newer was skipped.
C10_Witness ==
  /\ engine = "paper"
  /\ Len(newCandleLog) > 0
  /\ Len(decisions) > 0
  /\ skipLog > 0
  /\ LastCandle(candleHistory).timestamp = newCandleLog[Len(newCandleLog)]

LastPoint == stats.equityCurve[Len(stats.equityCurve)]

\* C11 (as claimed): the totalEquity the engine reads or records is
\* cash + quantity * close with a position open and cash alone when flat: the
\* risk check of a flat engine reads totalEquity = cash, and the equity point
\* recorded after an allowed decision that leaves the engine flat is the cash.
C11_EquityIsMarkToMarket ==
  /\ (IsCheck /\ engine \in {"backtest", "paper"} /\ ~lastCall.hasPosition)
       => lastCall.totalEquity = lastCall.cash
  /\ (IsCheck /\ engine = "backtest" /\ pc = "loop" /\ lastCall.check.allowed
        /\ ~currentPosition.open)
       => LastPoint.equity = portfolio.cash

\* C12 (as claimed): the equity curve starts with the initial capital and its
\* timestamps never decrease along the sequence, the seed point included.
C12_CurveMonotone ==
  /\ stats.equityCurve[1].equity = initialCapital
  /\ \A i, j \in 1..Len(stats.equityCurve) :
       i < j => stats.equityCurve[i].timestamp <= stats.equityCurve[j].timestamp

Last(s) == s[Len(s)]

\* this step received a decision and it is the fallback of a failed request
FallbackReceived ==
  /\ Len(decisions') = Len(decisions) + 1
  /\ Last(decisions').reasoning = "AI Error"

\* C13: a failed request (network error, timeout, no choice, content that is
\* not JSON or has no valid action) comes back from getDecision as HOLD with
\* confidence 0; on that candle the decision opens and closes no position and
\* leaves cash as it was when the decision was asked for, and the loop goes on
\* (the backtest moves to the next candle, the paper session keeps running).
C13_FallbackStep ==
  FallbackReceived =>
    /\ Last(decisions').action = "HOLD"
    /\ Last(decisions').confidence = 0
    /\ lastCall'.decision = Last(decisions')
    /\ portfolio'.cash = lastCall'.cash
    /\ currentPosition'.open = lastCall'.hasPosition
    /\ trades' = trades
    /\ engine = "backtest" => idx' = idx + 1 /\ pc' = "loop"
    /\ engine = "paper" => isRunning' = isRunning /\ (pollingInterval => pollingInterval')
C13_FallbackIsHold == [][C13_FallbackStep]_vars

\* C13 witness: a request failed with a position open, the position is still
\* open and a later candle got its decision.
C13_Witness ==
  /\ currentPosition.open
  /\ Len(trades) = 1 /\ Len(closedTrades) = 0
  /\ \E i \in 1..(Len(decisions) - 1) :
       /\ decisions[i].reasoning = "AI Error"
       /\ decisions[i].action = "HOLD"
       /\ decisions[i + 1].reasoning = "provider"

\* C14 (as claimed): a run without 50 candles aborts before any simulation
\* step: a backtest that loaded fewer than 50 candles never completes with a
\* result, and the paper session's timer never fires on a history shorter
\* than 50.
C14_ShortHistoryAborts ==
  /\ (engine = "backtest" /\ HistoryLen(candles) < 50) => pc # "done"
  /\ (engine = "paper" /\ pollingInterval /\ ticks >= 1)
       => HistoryLen(candleHistory) >= 50

\* the simulator's state: position, cash and holdings, trade log, statistics
Sim(e) == [portfolio |-> e.portfolio, currentPosition |-> e.currentPosition,
           trades |-> e.trades, tr |-> e.tr]

\* the engine as it is, with a dashboard whose broadcast returns
NoThrow == [engineState EXCEPT !.throws = FALSE]

\* C15 (as claimed): a dashboard whose broadcast throws changes nothing of
\* the pipeline: each step of the paper session (a new candle's exit check,
\* the steps after the decision, the close made by stop()) leaves position,
\* cash, holdings, trade log and statistics exactly as the same step does
\* without the failure, and a new candle with 50 candles of history still
\* goes on to its decision.
C15_Step ==
  engine = "paper" =>
  /\ (pc = "running" /\ pc' = "stopped") =>
       Sim(engineState') =
         Sim(IF currentPosition.open /\ HistoryLen(candleHistory) > 0
               THEN closePosition(NoThrow, LastCandle(candleHistory),
                                  "Paper Trading stopped", slippage, now)
               ELSE NoThrow)
  /\ (Len(newCandleLog') = Len(newCandleLog) + 1) =>
       /\ Sim(engineState') =
            Sim(beforeDecision(NoThrow, LastCandle(candleHistory'), slippage, now))
       /\ HistoryLen(candleHistory') >= 50 =>
            \E i \in 1..MaxInFlight : inv[i].pc = "fetch" /\ inv'[i].pc = "decide"
  /\ (Len(decisions') = Len(decisions) + 1) =>
       \A i \in 1..MaxInFlight :
         (inv[i].pc = "decide" /\ inv'[i].pc = "idle") =>
           Sim(engineState') =
             Sim(afterDecision(NoThrow, riskState, Last(decisions'), inv[i].candle,
                               slippage, recoveryMinutes, now).e)
C15_DashboardFailureHarmless == [][C15_Step]_vars

\* C16: when run() has returned no position is open, the returned closed
\* trades pair one to one, in order, with the positions opened during the
\* run, and a trade closed by the end of the run was closed on the final
\* candle: at its timestamp and at its close less slippage.
C16_NoPositionAfterRun ==
  (engine = "backtest" /\ pc = "done") =>
    /\ ~currentPosition.open
    /\ portfolio.holdings = <<>>
    /\ Len(closedTrades) = Len(trades)
    /\ \A i \in 1..Len(trades) :
         /\ closedTrades[i].timestamp = trades[i].timestamp
         /\ closedTrades[i].quantity = trades[i].quantity
         /\ closedTrades[i].price = trades[i].price
    /\ \A i \in 1..Len(closedTrades) :
         closedTrades[i].reasoning = "Backtest ended" =>
           /\ i = Len(closedTrades)
           /\ closedTrades[i].exitTime = Last(candles.recent).timestamp
           /\ closedTrades[i].exitPrice = Frac(Last(candles.recent).close, 10000 - slippage)

\* C16 witness: the run has returned, its last position was closed by the
\* end of the run and an earlier one during it.
C16_Witness ==
  /\ engine = "backtest" /\ pc = "done"
  /\ Len(closedTrades) >= 2
  /\ Last(closedTrades).reasoning = "Backtest ended"
  /\ closedTrades[1].reasoning # "Backtest ended"

\* C17 (as claimed): the backtest runs the pipeline once for every candle from
\* the 50th to the last: when run() has returned on a sequence of at least 50
\* candles, one decision was asked for each of its candles but the first 49,
\* in timestamp order.
C17_EveryCandleFromThe50th ==
  (engine = "backtest" /\ pc = "done" /\ HistoryLen(candles) >= 50) =>
    /\ Len(decisions) = HistoryLen(candles) - 49
    /\ \A i, j \in 1..Len(stats.equityCurve) :
         (1 < i /\ i < j) =>
           stats.equityCurve[i].timestamp <= stats.equityCurve[j].timestamp

\* the equities observed so far are the points of the curve, seed included
RECURSIVE PeakAt(_)
PeakAt(k) ==
  IF k = 1 THEN stats.equityCurve[1].equity
  ELSE Max(PeakAt(k - 1), stats.equityCurve[k].equity)
DrawdownAt(k) == PeakAt(k) - stats.equityCurve[k].equity

\* C18 (as claimed): the tracked peak is the largest equity observed so far,
\* maxDrawdownPercentage is the largest drawdown fraction (peak - equity)/peak
\* observed at any point so far (hence never decreases), and it is never
\* below currentDrawdown.  Percentages are 100 * num / den.
C18_MaxDrawdownIsLargest ==
  LET m == stats.maxDrawdownPercentage
      c == stats.currentDrawdown
      n == Len(stats.equityCurve)
  IN /\ peakEquity = PeakAt(n)
     /\ \A k \in 1..n : (m.num \div 100) * PeakAt(k) >= DrawdownAt(k) * m.den
     /\ \E k \in 1..n : (m.num \div 100) * PeakAt(k) = DrawdownAt(k) * m.den
     /\ (m.num \div 100) * c.den >= (c.num \div 100) * m.den

\* this step received a HOLD decision
HoldReceived ==
  /\ Len(decisions') = Len(decisions) + 1
  /\ Last(decisions').action = "HOLD"

\* C19 (as claimed): a candle whose decision is HOLD appends one equity point
\* stamped with the candle's timestamp (besides the point of an exit recorded
\* on the same candle) and refreshes currentDrawdown from it, whether the
\* risk manager is Active or Halted.
C19_Step ==
  HoldReceived =>
    /\ Len(stats'.equityCurve) =
         Len(stats.equityCurve) + 1 + (Len(closedTrades') - Len(closedTrades))
    /\ Last(stats'.equityCurve).timestamp = lastCall'.ts
    /\ stats'.currentDrawdown =
         [num |-> (peakEquity' - Last(stats'.equityCurve).equity) * 100, den |-> peakEquity']
C19_HoldAppendsPoint == [][C19_Step]_vars

\* C20 (as claimed): the paper session's candle history never holds more than
\* 500 candles, right after the initial load included, and what it keeps is
\* in timestamp order.
C20_HistoryBounded ==
  engine = "paper" =>
    /\ HistoryLen(candleHistory) <= 500
    /\ \A i, j \in 1..Len(candleHistory.recent) :
         i < j => candleHistory.recent[i].timestamp < candleHistory.recent[j].timestamp

\* C21 (as claimed): once stop() has returned the timer is cleared, no
\* position is open, and none is opened or closed afterwards, even by an
\* invocation that was awaiting its fetch or its decision when stop() ran.
C21_Step ==
  (engine = "paper" /\ pc = "stopped") =>
    /\ ~currentPosition.open
    /\ ~pollingInterval
    /\ trades' = trades
    /\ closedTrades' = closedTrades
C21_StoppedStaysFlat == [][C21_Step]_vars

\* the length of the run of trades of result isWin that ends at closedTrades[k]
RECURSIVE RunAt(_, _)
RunAt(k, isWin) ==
  IF k = 0 \/ closedTrades[k].isWin # isWin THEN 0 ELSE 1 + RunAt(k - 1, isWin)

\* the longest such run among the first k trades
RECURSIVE MaxRunAt(_, _)
MaxRunAt(k, isWin) ==
  IF k = 0 THEN 0 ELSE Max(MaxRunAt(k - 1, isWin), RunAt(k, isWin))

\* C22: after any sequence of addTrade calls the two streak counters are
\* never both nonzero, each is the length of the trailing run of trades of
\* its result, the two maxima are the longest runs so far, and
\* totalTrades = winningTrades + losingTrades = the number of closed trades.
C22_Streaks ==
  LET n == Len(closedTrades)
  IN /\ ~(stats.consecutiveWins # 0 /\ stats.consecutiveLosses # 0)
     /\ stats.consecutiveWins = RunAt(n, TRUE)
     /\ stats.consecutiveLosses = RunAt(n, FALSE)
     /\ stats.maxConsecutiveWins = MaxRunAt(n, TRUE)
     /\ stats.maxConsecutiveLosses = MaxRunAt(n, FALSE)
     /\ stats.totalTrades = n
     /\ stats.totalTrades = stats.winningTrades + stats.losingTrades
     /\ stats.winningTrades = Cardinality({k \in 1..n : closedTrades[k].isWin})

\* C22 witness: a win followed by two losses: the win streak was reset by the
\* flip and its maximum is kept.
C22_Witness ==
  /\ engine = "tracker"
  /\ Len(closedTrades) = 3
  /\ closedTrades[1].isWin /\ ~closedTrades[2].isWin /\ ~closedTrades[3].isWin
  /\ stats.consecutiveWins = 0 /\ stats.maxConsecutiveWins = 1
  /\ stats.consecutiveLosses = 2

\* the volume of the buckets lowerIndex..upperIndex
Enclosed(p) ==
  SumUpTo(p.volumeBuckets, p.upperIndex) - SumUpTo(p.volumeBuckets, p.lowerIndex - 1)

ProfileDone == lastCall.op = "calculateVolumeProfile" /\ lastCall.at = "done"

\* C25 (as claimed): when the value-area expansion ends, lowerIndex..upperIndex
\* contains the POC bucket and encloses at least 70% of the total volume of
\* the 20 buckets, whatever the distribution.
C25_ValueAreaEncloses70 ==
  ProfileDone =>
    /\ lastCall.lowerIndex <= lastCall.maxVolumeIndex
    /\ lastCall.maxVolumeIndex <= lastCall.upperIndex
    /\ Enclosed(lastCall) * 10 >= totalVolume(lastCall.volumeBuckets) * 7

\* C26 (as claimed): every open position has stopLoss < entryPrice <
\* takeProfit, whatever levels the decision suggested.
C26_LevelsBracketEntry ==
  currentPosition.open =>
    /\ currentPosition.stopLoss < currentPosition.entryPrice
    /\ currentPosition.entryPrice < currentPosition.takeProfit

\* C23: on a backtest candle that finds a long position open, the exit check
\* runs before the decision is used.  If the close is at or below stopLoss or
\* at or above takeProfit the position is closed on that candle, the stop
\* loss taking precedence, and the risk gate and the execution of that candle
\* see a flat portfolio holding the exit proceeds; otherwise the exit check
\* changes only the position's currentPrice and unrealizedPnL.
C23_Step ==
  (engine = "backtest" /\ pc = "loop" /\ idx' = idx + 1 /\ currentPosition.open) =>
    LET candle == candles.recent[idx]
        pos == currentPosition
        hitStop == candle.close <= pos.stopLoss
        hitTake == candle.close >= pos.takeProfit
    IN IF hitStop \/ hitTake
         THEN /\ Len(closedTrades') = Len(closedTrades) + 1
              /\ Last(closedTrades').exitTime = candle.timestamp
              /\ Last(closedTrades').timestamp = pos.entryTime
              /\ Last(closedTrades').reasoning =
                   IF hitStop THEN "Stop Loss triggered" ELSE "Take Profit triggered"
              /\ lastCall'.ts = candle.timestamp
              /\ ~lastCall'.hasPosition
              /\ lastCall'.cash =
                   portfolio.cash + Last(closedTrades').value + Last(closedTrades').pnl
              /\ currentPosition'.open => currentPosition'.entryTime = candle.timestamp
         ELSE /\ lastCall'.ts = candle.timestamp
              /\ lastCall'.hasPosition
              /\ lastCall'.cash = portfolio.cash
              /\ IF currentPosition'.open
                   THEN /\ currentPosition' =
                             [pos EXCEPT !.currentPrice = candle.close,
                                         !.unrealizedPnL = pos.quantity * candle.close
                                                           - pos.quantity * pos.entryPrice]
                        /\ closedTrades' = closedTrades
                   ELSE /\ Len(closedTrades') = Len(closedTrades) + 1
                        /\ Last(closedTrades').reasoning = "decision"
newEngine(wallClock) ==
  [portfolio |-> [cash |-> initialCapital, holdings |-> <<>>,
                  totalEquity |-> initialCapital, timestamp |-> wallClock],
   currentPosition |-> NoPosition,
   trades |-> <<>>,
   tr |-> [stats |-> initialStats(initialCapital, wallClock),
           closedTrades |-> <<>>, peakEquity |-> initialCapital],
   throws |-> FALSE, fault |-> FALSE]
newRiskManager == [halted |-> FALSE, reason |-> "", ts |-> 0]

\* the engine, the risk manager and the RiskChecks after the first k candles
RECURSIVE runUpTo(_, _)
runUpTo(k, wallClock) ==
  IF k = 0
    THEN [e |-> newEngine(wallClock), rs |-> newRiskManager, checks |-> <<>>]
    ELSE LET p == runUpTo(k - 1, wallClock)
             candle == candles.recent[k]
             e1 == beforeDecision(p.e, candle, slippage, wallClock)
             r == afterDecision(e1, p.rs, decisions[k], candle, slippage,
                                recoveryMinutes, wallClock)
         IN [e |-> r.e, rs |-> r.rs, checks |-> Append(p.checks, r.check)]

run(wallClock) ==
  LET n == Len(candles.recent)
      p == runUpTo(n, wallClock)
  IN IF p.e.currentPosition.open
       THEN [p EXCEPT !.e = closePosition(p.e, candles.recent[n], "Backtest ended",
                                          slippage, wallClock)]
       ELSE p

\* a wall-clock time other than this run's
OtherWallClock == now + TimeframeMs

BacktestDone == engine = "backtest" /\ pc = "done"

\* C24, the comparison's footing: run(now) is this run
C24_RunIsThisRun ==
  BacktestDone =>
    /\ run(now).e.tr = tracker
    /\ run(now).e.portfolio = portfolio
    /\ run(now).rs = riskState

\* a closed trade without its id
SansId(t) == [f \in (DOMAIN t) \ {"id"} |-> t[f]]

\* C24, the part that holds: two runs at different wall-clock times agree on the RiskChecks,
\* the closed trades but for their ids, the statistics but for the seed point
\* of the equity curve and the two wall-clock stamps
C24_AgreeButForStamps ==
  BacktestDone =>
    LET a == run(now)
        b == run(OtherWallClock)
        sa == a.e.tr.stats
        sb == b.e.tr.stats
    IN /\ a.checks = b.checks
       /\ a.rs = b.rs
       /\ Len(a.e.tr.closedTrades) = Len(b.e.tr.closedTrades)
       /\ \A k \in 1..Len(a.e.tr.closedTrades) :
            SansId(a.e.tr.closedTrades[k]) = SansId(b.e.tr.closedTrades[k])
       /\ Tail(sa.equityCurve) = Tail(sb.equityCurve)
       /\ [sa EXCEPT !.equityCurve = <<>>, !.startTime = 0, !.lastUpdateTime = 0]
            = [sb EXCEPT !.equityCurve = <<>>, !.startTime = 0, !.lastUpdateTime = 0]

\* C24 (as claimed): a second run on the same candles and the same provider
\* decisions, executed at another wall-clock time, produces the same
\* risk-gate outcomes, the same closed trades, ids included, the same equity
\* curve and the same statistics.
C24_RunsAgree ==
  BacktestDone =>
    LET a == run(now)
        b == run(OtherWallClock)
    IN /\ a.checks = b.checks
       /\ a.e.tr.closedTrades = b.e.tr.closedTrades
       /\ a.e.tr.stats.equityCurve = b.e.tr.stats.equityCurve
       /\ a.e.tr.stats = b.e.tr.stats

\* the call found the manager Active, or recovered it from its halt
ActiveOrRecovered(c) ==
  \/ ~c.before.halted
  \/ recoveryMinutes # 0 /\ c.ts # 0 /\ c.ts - c.before.ts >= RecoveryMs

C28_ClosedExactlyOnce ==
  /\ Len(closedTrades) <= Len(trades)
  /\ \A i, j \in 1..Len(closedTrades) :
       i < j => closedTrades[i].timestamp # closedTrades[j].timestamp
  /\ currentPosition.open => portfolio.holdings # <<>>

\* C28, the double credit: no closed trade repeats an earlier one's entry
C28_NoSecondClose ==
  \A i, j \in 1..Len(closedTrades) :
    i < j => closedTrades[i].timestamp # closedTrades[j].timestamp

\* C29: a halted risk manager does not block the protective exits.  On a
\* backtest candle that finds a position open and the manager halted, a close
\* at or below stopLoss or at or above takeProfit closes the position on that
\* candle and the closed trade enters the statistics; with no exit hit, and
\* the manager still halted after the call, the decision (a SELL included) is
\* refused and the position stays as it is.
C29_Step ==
  (engine = "backtest" /\ pc = "loop" /\ idx' = idx + 1
     /\ currentPosition.open /\ tradingHalted) =>
    LET candle == candles.recent[idx]
        pos == currentPosition
        hit == candle.close <= pos.stopLoss \/ candle.close >= pos.takeProfit
    IN IF hit
         THEN /\ Len(closedTrades') = Len(closedTrades) + 1
              /\ Last(closedTrades').timestamp = pos.entryTime
              /\ Last(closedTrades').exitTime = candle.timestamp
              /\ Last(closedTrades').reasoning \in
                   {"Stop Loss triggered", "Take Profit triggered"}
              /\ stats'.totalTrades = stats.totalTrades + 1
              /\ stats'.totalPnL = stats.totalPnL + Last(closedTrades').pnl
              /\ stats'.consecutiveLosses =
                   IF Last(closedTrades').isWin THEN 0 ELSE stats.consecutiveLosses + 1
              /\ ~lastCall'.hasPosition
         ELSE tradingHalted' =>
                /\ ~lastCall'.check.allowed
                /\ currentPosition'.open
                /\ currentPosition'.entryTime = pos.entryTime
                /\ closedTrades' = closedTrades
C29_HaltDoesNotBlockExits == [][C29_Step]_vars

\* C29 witness: the breaker tripped while the position was open, and a later
\* candle closed the position on its stop loss with the manager still halted.
C29_Witness ==
  /\ engine = "backtest"
  /\ IsCheck
  /\ lastCall.before.halted
  /\ lastCall.before.ts < lastCall.ts
  /\ closedTrades # <<>>
  /\ Last(closedTrades).reasoning = "Stop Loss triggered"
  /\ Last(closedTrades).exitTime = lastCall.ts
  /\ Last(closedTrades).timestamp < lastCall.before.ts
  /\ stats.totalTrades = Len(closedTrades)
  /\ tradingHalted
  /\ ~currentPosition.open

\* sums over the first k closed trades and over the first k opening trades
RECURSIVE SumPnl(_)
SumPnl(k) == IF k = 0 THEN 0 ELSE closedTrades[k].pnl + SumPnl(k - 1)
RECURSIVE SumEntryFees(_)
SumEntryFees(k) == IF k = 0 THEN 0 ELSE trades[k].fee + SumEntryFees(k - 1)

\* C30: whenever no position is open, cash = initialCapital + the pnl of all
\* closed trades - the entry fees of those trades; stats.totalPnL is the sum
\* of the pnl, which counts the exit fees only; and holdings has its entry
\* exactly while a position is open.
C30_CashIdentity ==
  LET n == Len(closedTrades)
  IN /\ stats.totalPnL = SumPnl(n)
     /\ \A k \in 1..n :
          closedTrades[k].pnl =
            closedTrades[k].quantity * closedTrades[k].exitPrice
              - closedTrades[k].value - closedTrades[k].fee
     /\ ~currentPosition.open =>
          /\ Len(trades) = n
          /\ portfolio.cash = initialCapital + SumPnl(n) - SumEntryFees(n)
          /\ portfolio.cash = initialCapital + stats.totalPnL - SumEntryFees(n)
     /\ (portfolio.holdings # <<>>) <=> currentPosition.open

\* C30 witness: two positions opened and closed, entry fees paid, no position
\* open: cash is below initialCapital + totalPnL by the entry fees.
C30_Witness ==
  /\ engine \in {"backtest", "paper"}
  /\ ~currentPosition.open
  /\ Len(closedTrades) = 2
  /\ SumEntryFees(2) > 0
  /\ portfolio.cash = initialCapital + stats.totalPnL - SumEntryFees(2)
  /\ portfolio.cash # initialCapital + stats.totalPnL

====
